---- MODULE Spec2Model ----
(***************************************************************************)
(* Factory-reset stress test (P11_FactoryReset_StressTest.py) as a state   *)
(* machine: main, run_reboot_stress, run_factory_reset,                    *)
(* wait_for_boot_and_oobe and capture_bugreport, one action per block of   *)
(* statements, with the device-control interface (adb) and the clock as    *)
(* the environment.                                                        *)
(*                                                                         *)
(* Text is a sequence of one-character strings so that substring tests,    *)
(* lower() and strip() are computed.  Time is in milliseconds.             *)
(***************************************************************************)
EXTENDS Integers, Sequences, FiniteSets, TLC

(* ------------------------------ bounds -------------------------------- *)

\* largest cycle count given on the command line
MaxCycles == 2

\* polls of the unbounded waits of one cycle that may find the device not yet
\* in the awaited state before it reaches it; a device that takes more never
\* reaches it.  Also the number of offline polls within which the device
\* drops off the bus when it drops at all
MaxPolls == 1

\* seconds over the anomaly threshold up to which a reboot is followed
MaxOverrun == 1

(* ------------------------------- text --------------------------------- *)

UpperCase == <<"A","B","C","D","E","F","G","H","I","J","K","L","M","N","O","P","Q","R","S","T","U","V","W","X","Y","Z">>

LowerCase == <<"a","b","c","d","e","f","g","h","i","j","k","l","m","n","o","p","q","r","s","t","u","v","w","x","y","z">>

Whitespace == {" ", "\t", "\n", "\r"}

\* needle in hay
Contains(hay, needle) ==
    \E i \in 0..(Len(hay) - Len(needle)) :
        SubSeq(hay, i + 1, i + Len(needle)) = needle

\* s.lower()
Lower(s) ==
    [i \in 1..Len(s) |->
        IF \E k \in 1..26 : UpperCase[k] = s[i]
        THEN LowerCase[CHOOSE k \in 1..26 : UpperCase[k] = s[i]]
        ELSE s[i]]

\* s.strip()
Strip(s) ==
    LET keep == {i \in 1..Len(s) : s[i] \notin Whitespace}
    IN  IF keep = {} THEN <<>>
        ELSE SubSeq(s, CHOOSE i \in keep : \A j \in keep : i <= j,
                       CHOOSE i \in keep : \A j \in keep : j <= i)

Digits == <<"0","1","2","3","4","5","6","7","8","9">>

DigitValue(c) == (CHOOSE k \in 1..10 : Digits[k] = c) - 1

RECURSIVE IntOf(_)
\* int(s) for a string of decimal digits
IntOf(s) ==
    IF Len(s) = 0 THEN 0
    ELSE 10 * IntOf(SubSeq(s, 1, Len(s) - 1)) + DigitValue(s[Len(s)])

\* int(s) does not raise; of the strings int() takes, only runs of digits
\* are given on the command line
IsCount(s) == Len(s) > 0 /\ \A i \in 1..Len(s) : \E k \in 1..10 : Digits[k] = s[i]

RECURSIVE StrOf(_)
\* the decimal digits of n, as typed on the command line
StrOf(n) ==
    IF n < 10 THEN <<Digits[n + 1]>>
    ELSE StrOf(n \div 10) \o <<Digits[(n % 10) + 1]>>

(* ------------------------- program constants -------------------------- *)

MAX_REBOOT_TIME_SEC == 900

Seconds(s) == s * 1000

OFFLINE_POLL == Seconds(2)

OFFLINE_TIMEOUT == Seconds(60)

POLL == Seconds(5)

OOBE_SETTLE == Seconds(80)

TEST_MODE_SETTLE == Seconds(120)

CYCLE_PAUSE == Seconds(10)

DENIAL_PHRASE == <<"a","d","b","d"," ","c","a","n","n","o","t"," ","r","u","n"," ","a","s"," ","r","o","o","t">>

OFFLINE_STATE == <<"o","f","f","l","i","n","e">>

DEVICE_WORD == <<"d","e","v","i","c","e">>

BOOT_DONE == <<"1">>

TAP_TO_BEGIN == <<"T","a","p"," ","t","o"," ","B","e","g","i","n">>

SETUP_WIZARD == <<"S","e","t","u","p","W","i","z","a","r","d">>

\* the unset value of a number (None, or a local not yet assigned)
None == 0 - 1

\* datetime.now().strftime('%Y-%m-%d %H:%M:%S'): the clock cut to whole seconds
Timestamp(t) == t \div 1000

\* f"{x:.2f}" of a time in seconds: hundredths of a second, rounded to nearest
Fmt2(ms) == (ms + 5) \div 10

(* ------------------- the device-control interface --------------------- *)

Serial == <<"A","1">>

OtherSerial == <<"B","2">>

ListHeader == <<"L","i","s","t"," ","o","f"," ","d","e","v","i","c","e","s"," ","a","t","t","a","c","h","e","d","\n">>

UNAUTHORIZED_STATE == <<"u","n","a","u","t","h","o","r","i","z","e","d">>

TargetStates == {"absent", "device", "offline", "unauthorized"}

StateText(st) ==
    CASE st = "device" -> DEVICE_WORD
      [] st = "offline" -> OFFLINE_STATE
      [] st = "unauthorized" -> UNAUTHORIZED_STATE

\* what `adb devices` prints with the target in state st and, when other,
\* a second device attached and ready
Listing(st, other) ==
    ListHeader
    \o (IF st = "absent" THEN <<>> ELSE Serial \o <<"\t">> \o StateText(st) \o <<"\n">>)
    \o (IF other THEN OtherSerial \o <<"\t">> \o DEVICE_WORD \o <<"\n">> ELSE <<>>)
    \o <<"\n">>

\* the target alone in each state, or gone or offline beside a ready device
Listings ==
    {Listing(st, FALSE) : st \in TargetStates}
    \cup {Listing(st, TRUE) : st \in {"absent", "offline"}}

\* the target's line of a listing says st
Listed(listing, st) == Contains(listing, <<"\n">> \o Serial \o <<"\t">> \o StateText(st) \o <<"\n">>)

\* the target has no line in a listing
Unlisted(listing) == ~Contains(listing, <<"\n">> \o Serial \o <<"\t">>)

RootRestarting == <<"r","e","s","t","a","r","t","i","n","g"," ","a","d","b","d"," ","a","s"," ","r","o","o","t","\n">>

RootAlready == <<"a","d","b","d"," ","i","s"," ","a","l","r","e","a","d","y"," ","r","u","n","n","i","n","g"," ","a","s"," ","r","o","o","t","\n">>

RootProduction == <<"a","d","b","d"," ","c","a","n","n","o","t"," ","r","u","n"," ","a","s"," ","r","o","o","t"," ","i","n"," ","p","r","o","d","u","c","t","i","o","n"," ","b","u","i","l","d","s","\n">>

RootProductionCaps == <<"A","D","B","D"," ","C","a","n","n","o","t"," ","R","u","n"," ","A","s"," ","R","o","o","t","\n">>

RootOutputs == {<<>>, RootRestarting, RootAlready, RootProduction, RootProductionCaps}

PropOutputs == {<<>>, <<"\n">>, <<"0","\n">>, <<"1","\n">>, <<" ","1","\r","\n">>, <<"1","1","\n">>}

DumpOobe == <<"m","C","u","r","r","e","n","t","F","o","c","u","s","=","W","i","n","d","o","w","{","T","a","p"," ","t","o"," ","B","e","g","i","n","}","\n">>

DumpWizard == <<"m","C","u","r","r","e","n","t","F","o","c","u","s","=","W","i","n","d","o","w","{","u","0"," ","S","e","t","u","p","W","i","z","a","r","d","}","\n">>

DumpLauncher == <<"m","C","u","r","r","e","n","t","F","o","c","u","s","=","W","i","n","d","o","w","{","u","0"," ","L","a","u","n","c","h","e","r","}","\n">>

DumpLowerCase == <<"t","a","p"," ","t","o"," ","b","e","g","i","n","\n">>

DumpOutputs == {<<>>, DumpOobe, DumpWizard, DumpLauncher, DumpLowerCase}

ReturnCodes == {0, 1}

\* a completed subprocess.run: its return code and its standard output
Completed(rc, out) == [returncode |-> rc, stdout |-> out]

NoResult == Completed(None, <<>>)

\* how long the boot-completion query blocks: not at all, or until a reboot
\* that began one poll earlier has lasted exactly the anomaly threshold, or
\* 4 ms more
PropLatencies == {0, Seconds(MAX_REBOOT_TIME_SEC) - POLL, Seconds(MAX_REBOOT_TIME_SEC) - POLL + 4}

\* the longest reboot the model follows
Horizon == Seconds(MAX_REBOOT_TIME_SEC + MaxOverrun)

Program == <<"p","y">>

\* the devices there are; adb -s with any other serial finds no device
Devices == {Serial, OtherSerial}

\* a serial typed short, and a word of the listing's first line
TruncatedSerial == <<"A">>

HeaderWord == <<"L","i","s","t">>

\* the listing has a line for the serial
HasLine(listing, serial) == Contains(listing, <<"\n">> \o serial \o <<"\t">>)

\* the command lines: too few arguments, a serial and a count, too many, a
\* serial of no device, a count that is no number
CommandLines ==
    {<<Program>>, <<Program, Serial>>, <<Program, Serial, <<"1">>, <<"x">>>>}
    \cup {<<Program, Serial, StrOf(n)>> : n \in 0..MaxCycles}
    \cup {<<Program, TruncatedSerial, <<"1">>>>, <<Program, HeaderWord, <<"1">>>>}
    \cup {<<Program, Serial, <<"x">>>>}

(* ------------------------------- state -------------------------------- *)

VARIABLES
    pc,               \* the statement the process is at
    argv,             \* sys.argv
    SERIAL_NUMBER,    \* global, line 9
    REBOOT_TIMES,     \* global, line 10
    attached,         \* whether the listing main read has a line for argv[1]
    now,              \* the wall clock, in ms
    cycle,            \* run_reboot_stress: the loop variable
    cycle_start_time, \* run_reboot_stress, line 117
    reboot_time,      \* run_reboot_stress, line 123
    completed_time,   \* run_reboot_stress, line 123
    bugreport_flag,   \* run_reboot_stress, line 125
    local,            \* the locals of the function called by run_reboot_stress
    ret,              \* the value that function returned
    polls,            \* polls made so far in the current polling loop
    log,              \* the lines of the log file
    csv,              \* the rows of the result file, header first
    files,            \* whether the log file and the result file exist
    bugreports,       \* the bugreport files written, by cycle
    issued            \* the adb commands issued, as <<cycle, command>>

vars == <<pc, argv, SERIAL_NUMBER, REBOOT_TIMES, attached, now, cycle, cycle_start_time,
          reboot_time, completed_time, bugreport_flag, local, ret, polls,
          log, csv, files, bugreports, issued>>

\* the variables of run_reboot_stress that only lines 117-125 assign
loopLocals == <<cycle, cycle_start_time, reboot_time, completed_time, bugreport_flag>>

globals == <<argv, SERIAL_NUMBER, REBOOT_TIMES, attached>>

NoLocals ==
    [result |-> NoResult, devices |-> <<>>, start_wait |-> None, start_time |-> None,
     end_time |-> None, reboot_time |-> None, completed_time |-> None]

\* Python values a call can hand back: nothing yet, a bool, or the pair of line 103
RetNone == [kind |-> "none", truth |-> FALSE, reboot_time |-> None, completed_time |-> None]

RetBool(b) == [kind |-> "bool", truth |-> b, reboot_time |-> None, completed_time |-> None]

RetPair(rt, ct) == [kind |-> "tuple", truth |-> TRUE, reboot_time |-> rt, completed_time |-> ct]

\* logging(f, info): one more line, as <<message, the value formatted into it>>;
\* the prefix that stamps the line with the time of writing is left out
Logged(lines, info, arg) == Append(lines, <<info, arg>>)

Issue(c, cmd) == issued \cup {<<c, cmd>>}

(* ---------------------- the conditions of the code -------------------- *)

\* line 28
RootFailed(result) == result.returncode # 0

\* line 31 reached only through a failed status: the denial text is looked
\* for only when the return code is not 0
RootDeniedOnError(result) ==
    result.returncode # 0 /\ Contains(Lower(result.stdout), DENIAL_PHRASE)

\* line 31
RootDenied(result) == Contains(Lower(result.stdout), DENIAL_PHRASE)

\* line 39 with the test of the return code turned round
ResetFailedMissed(result) == result.returncode = 0

\* line 39
ResetFailed(result) == result.returncode # 0

\* line 49
WentOffline(serial, devices) ==
    \/ ~Contains(devices, serial)
    \/ Contains(devices, serial \o <<"\t">> \o OFFLINE_STATE)

\* line 52 with >= for >
OfflineTimedOutInclusive(t, start_wait) == t - start_wait >= OFFLINE_TIMEOUT

\* line 52
OfflineTimedOut(t, start_wait) == t - start_wait > OFFLINE_TIMEOUT

\* line 67
DeviceDetected(serial, devices) ==
    Contains(devices, serial) /\ Contains(devices, DEVICE_WORD)

\* line 74
BootCompleted(result) == Strip(result.stdout) = BOOT_DONE

\* line 83
OobeShown(result) ==
    Contains(result.stdout, TAP_TO_BEGIN) \/ Contains(result.stdout, SETUP_WIZARD)

\* line 89
Elapsed(end_time, start_time) == end_time - start_time

\* line 97
SkipFailed(result) == result.returncode # 0

\* line 119: not run_factory_reset(...)
HardFailed(r) == ~r.truth

\* line 126 with >= for >
ExceedsMaxInclusive(rt) == rt >= Seconds(MAX_REBOOT_TIME_SEC)

\* line 126
ExceedsMax(rt) == rt > Seconds(MAX_REBOOT_TIME_SEC)

\* line 132
Row(serial, c, rt, ct, flag) == <<serial, c, Fmt2(rt), ct, flag>>

Header == <<"Serial Number", "Cycle", "Reboot Duration (s)", "Reboot Completed Time", "Bugreport Triggered">>

(* -------------------------------- Init -------------------------------- *)

Init ==
    /\ pc = "main"
    /\ argv \in CommandLines
    /\ SERIAL_NUMBER = <<>>
    /\ REBOOT_TIMES = None
    /\ attached = FALSE
    /\ now = 0
    /\ cycle = 0
    /\ cycle_start_time = None
    /\ reboot_time = None
    /\ completed_time = None
    /\ bugreport_flag = "unset"
    /\ local = NoLocals
    /\ ret = RetNone
    /\ polls = 0
    /\ log = <<>>
    /\ csv = <<>>
    /\ files = FALSE
    /\ bugreports = <<>>
    /\ issued = {}

(* -------------------------------- main -------------------------------- *)

\* lines 142-144: wrong argument count
MainUsage ==
    /\ pc = "main"
    /\ Len(argv) # 3
    /\ pc' = "exit1"
    /\ UNCHANGED <<globals, now, loopLocals, local, ret, polls, log, csv, files,
                   bugreports, issued>>

\* lines 146-148: int() raises on the count; the ValueError ends the process
MainBadCount ==
    /\ pc = "main"
    /\ Len(argv) = 3
    /\ ~IsCount(argv[3])
    /\ SERIAL_NUMBER' = argv[2]
    /\ pc' = "ValueError"
    /\ UNCHANGED <<argv, REBOOT_TIMES, attached, now, loopLocals, local, ret, polls,
                   log, csv, files, bugreports, issued>>

\* lines 146-153: the device is not in the listing
MainNoDevice ==
    /\ pc = "main"
    /\ Len(argv) = 3
    /\ IsCount(argv[3])
    /\ \E listing \in Listings :
        /\ ~Contains(listing, argv[2])
        /\ SERIAL_NUMBER' = argv[2]
        /\ REBOOT_TIMES' = IntOf(argv[3])
        /\ attached' = HasLine(listing, argv[2])
        /\ issued' = Issue(0, "devices")
        /\ pc' = "exit1"
    /\ UNCHANGED <<argv, now, loopLocals, local, ret, polls, log, csv, files, bugreports>>

\* lines 146-161: the files are opened, the first log line and the header written
MainOpen ==
    /\ pc = "main"
    /\ Len(argv) = 3
    /\ IsCount(argv[3])
    /\ \E listing \in Listings :
        /\ Contains(listing, argv[2])
        /\ SERIAL_NUMBER' = argv[2]
        /\ REBOOT_TIMES' = IntOf(argv[3])
        /\ attached' = HasLine(listing, argv[2])
        /\ issued' = Issue(0, "devices")
        /\ files' = TRUE
        /\ log' = Logged(log, "Starting factory reset stress test on device", 0)
        /\ csv' = <<Header>>
        /\ pc' = "for"
    /\ UNCHANGED <<argv, now, loopLocals, local, ret, polls, bugreports>>

\* lines 165-166, and the with block closing the files
MainCompleted ==
    /\ pc = "completed"
    /\ log' = Logged(log, "Test completed.", 0)
    /\ pc' = "exit0"
    /\ UNCHANGED <<globals, now, loopLocals, local, ret, polls, csv, files,
                   bugreports, issued>>

(* -------------------------- run_reboot_stress ------------------------- *)

\* lines 115-117: the next cycle starts
CycleStart ==
    /\ pc = "for"
    /\ cycle < REBOOT_TIMES
    /\ cycle' = cycle + 1
    /\ log' = Logged(log, "===== Cycle START =====", cycle + 1)
    /\ cycle_start_time' = now
    /\ polls' = 0
    /\ pc' = "root"
    /\ UNCHANGED <<globals, now, reboot_time, completed_time, bugreport_flag, local,
                   ret, csv, files, bugreports, issued>>

\* line 115: range(1, REBOOT_TIMES + 1) is exhausted
LoopEnd ==
    /\ pc = "for"
    /\ cycle >= REBOOT_TIMES
    /\ pc' = "completed"
    /\ UNCHANGED <<globals, now, loopLocals, local, ret, polls, log, csv, files,
                   bugreports, issued>>

(* -------------------------- run_factory_reset ------------------------- *)

\* lines 26-27: adb root
GainRoot ==
    /\ pc = "root"
    /\ \E rc \in ReturnCodes, out \in RootOutputs :
        /\ SERIAL_NUMBER \in Devices \/ (rc = 1 /\ out = <<>>)
        /\ local' = [local EXCEPT !.result = Completed(rc, out)]
    /\ log' = Logged(log, "Gaining ADB root before factory reset...", 0)
    /\ issued' = Issue(cycle, "root")
    /\ pc' = "root_check"
    /\ UNCHANGED <<globals, now, loopLocals, ret, polls, csv, files, bugreports>>

\* lines 28-30
RootError ==
    /\ pc = "root_check"
    /\ RootFailed(local.result)
    /\ log' = Logged(log, "Failed to gain root", 0)
    /\ ret' = RetBool(FALSE)
    /\ local' = NoLocals
    /\ pc' = "reset_returned"
    /\ UNCHANGED <<globals, now, loopLocals, polls, csv, files, bugreports, issued>>

\* lines 31-33
RootRefused ==
    /\ pc = "root_check"
    /\ ~RootFailed(local.result)
    /\ RootDenied(local.result)
    /\ log' = Logged(log, "Device does not allow ADB root. Cannot proceed with factory reset.", 0)
    /\ ret' = RetBool(FALSE)
    /\ local' = NoLocals
    /\ pc' = "reset_returned"
    /\ UNCHANGED <<globals, now, loopLocals, polls, csv, files, bugreports, issued>>

\* lines 34-38: root granted, the reset broadcast is sent
TriggerReset ==
    /\ pc = "root_check"
    /\ ~RootFailed(local.result)
    /\ ~RootDenied(local.result)
    /\ \E rc \in ReturnCodes :
        local' = [local EXCEPT !.result = Completed(rc, <<>>)]
    /\ log' = Logged(Logged(log, "ADB root granted successfully.", 0),
                     "Initiating factory reset", 0)
    /\ issued' = Issue(cycle, "reset")
    /\ pc' = "reset_check"
    /\ UNCHANGED <<globals, now, loopLocals, ret, polls, csv, files, bugreports>>

\* lines 39-41
ResetError ==
    /\ pc = "reset_check"
    /\ ResetFailed(local.result)
    /\ log' = Logged(log, "Failed to start factory reset", 0)
    /\ ret' = RetBool(FALSE)
    /\ local' = NoLocals
    /\ pc' = "reset_returned"
    /\ UNCHANGED <<globals, now, loopLocals, polls, csv, files, bugreports, issued>>

\* lines 44-45
OfflineWaitStart ==
    /\ pc = "reset_check"
    /\ ~ResetFailed(local.result)
    /\ log' = Logged(log, "Waiting for device to go offline...", 0)
    /\ local' = [local EXCEPT !.start_wait = now]
    /\ polls' = 0
    /\ pc' = "offline_sleep"
    /\ UNCHANGED <<globals, now, loopLocals, ret, csv, files, bugreports, issued>>

\* lines 47-48: sleep 2 s, list the devices.  The target drops off the bus
\* within the first MaxPolls polls or stays on it.
OfflinePoll ==
    /\ pc = "offline_sleep"
    /\ now' = now + OFFLINE_POLL
    /\ \E listing \in Listings :
        /\ (Unlisted(listing) \/ Listed(listing, "offline")) => polls < MaxPolls
        /\ local' = [local EXCEPT !.devices = listing]
    /\ polls' = polls + 1
    /\ issued' = Issue(cycle, "devices")
    /\ pc' = "offline_check"
    /\ UNCHANGED <<globals, loopLocals, ret, log, csv, files, bugreports>>

\* lines 49-51, 56
OfflineSeen ==
    /\ pc = "offline_check"
    /\ WentOffline(SERIAL_NUMBER, local.devices)
    /\ log' = Logged(log, "Device went offline. Reset in progress...", 0)
    /\ ret' = RetBool(TRUE)
    /\ local' = NoLocals
    /\ polls' = 0
    /\ pc' = "reset_returned"
    /\ UNCHANGED <<globals, now, loopLocals, csv, files, bugreports, issued>>

\* lines 52-54, 56
OfflineGiveUp ==
    /\ pc = "offline_check"
    /\ ~WentOffline(SERIAL_NUMBER, local.devices)
    /\ OfflineTimedOut(now, local.start_wait)
    /\ log' = Logged(log, "Timeout waiting for device to go offline. Continuing anyway...", 0)
    /\ ret' = RetBool(TRUE)
    /\ local' = NoLocals
    /\ polls' = 0
    /\ pc' = "reset_returned"
    /\ UNCHANGED <<globals, now, loopLocals, csv, files, bugreports, issued>>

\* line 46: neither break is taken
OfflineAgain ==
    /\ pc = "offline_check"
    /\ ~WentOffline(SERIAL_NUMBER, local.devices)
    /\ ~OfflineTimedOut(now, local.start_wait)
    /\ pc' = "offline_sleep"
    /\ UNCHANGED <<globals, now, loopLocals, local, ret, polls, log, csv, files,
                   bugreports, issued>>

\* lines 119-121 with continue for break
HardFailureContinues ==
    /\ pc = "reset_returned"
    /\ HardFailed(ret)
    /\ log' = Logged(log, "Factory reset command failed at cycle", cycle)
    /\ ret' = RetNone
    /\ pc' = "for"
    /\ UNCHANGED <<globals, now, loopLocals, local, polls, csv, files,
                   bugreports, issued>>

\* lines 119-121: the failed cycle is logged and the loop is left
HardFailure ==
    /\ pc = "reset_returned"
    /\ HardFailed(ret)
    /\ log' = Logged(log, "Factory reset command failed at cycle", cycle)
    /\ ret' = RetNone
    /\ pc' = "completed"
    /\ UNCHANGED <<globals, now, loopLocals, local, polls, csv, files,
                   bugreports, issued>>

(* ----------------------- wait_for_boot_and_oobe ----------------------- *)

\* whether a wait of this cycle may find its condition unmet at time t and
\* still find it met later
CanWait(t) == polls < MaxPolls /\ t + POLL - local.start_time <= Horizon

\* the device will not reach the state the current wait polls for; the clock
\* of such a wait is followed no further
Stuck == local.start_time # None /\ polls > MaxPolls

\* the poll count after a poll at time t that found the condition unmet
Unmet(t) == IF CanWait(t) THEN polls ELSE MaxPolls + 1

\* lines 123, 60-61: run_factory_reset returned True
WaitStart ==
    /\ pc = "reset_returned"
    /\ ~HardFailed(ret)
    /\ ret' = RetNone
    /\ log' = Logged(log, "Waiting for device to come back online after reset...", 0)
    /\ local' = [local EXCEPT !.start_time = now]
    /\ polls' = 0
    /\ pc' = "reach_sleep"
    /\ UNCHANGED <<globals, now, loopLocals, csv, files, bugreports, issued>>

\* lines 65-66: sleep 5 s, list the devices
ReachPoll ==
    /\ pc = "reach_sleep"
    /\ now' = IF Stuck THEN now ELSE now + POLL
    /\ \E listing \in Listings :
        /\ DeviceDetected(SERIAL_NUMBER, listing) => ~Stuck
        /\ polls' = IF DeviceDetected(SERIAL_NUMBER, listing) THEN polls
                    ELSE Unmet(now + POLL)
        /\ local' = [local EXCEPT !.devices = listing]
    /\ issued' = Issue(cycle, "devices")
    /\ pc' = "reach_check"
    /\ UNCHANGED <<globals, loopLocals, ret, log, csv, files, bugreports>>

\* lines 67-69
ReachSeen ==
    /\ pc = "reach_check"
    /\ DeviceDetected(SERIAL_NUMBER, local.devices)
    /\ log' = Logged(log, "Device detected by ADB.", 0)
    /\ pc' = "boot_poll"
    /\ UNCHANGED <<globals, now, loopLocals, local, ret, polls, csv, files, bugreports, issued>>

\* line 64 with the loop left when line 67 is false: the driver goes on to
\* the boot-completion query without the device detected
ReachAgainFallsThrough ==
    /\ pc = "reach_check"
    /\ ~DeviceDetected(SERIAL_NUMBER, local.devices)
    /\ pc' = "boot_poll"
    /\ UNCHANGED <<globals, now, loopLocals, local, ret, polls, log, csv, files,
                   bugreports, issued>>

\* line 64: the condition of line 67 is false
ReachAgain ==
    /\ pc = "reach_check"
    /\ ~DeviceDetected(SERIAL_NUMBER, local.devices)
    /\ polls' = IF Stuck THEN polls ELSE polls + 1
    /\ pc' = "reach_sleep"
    /\ UNCHANGED <<globals, now, loopLocals, local, ret, log, csv, files,
                   bugreports, issued>>

\* line 73: getprop sys.boot_completed, which may block
BootPoll ==
    /\ pc = "boot_poll"
    /\ \E out \in PropOutputs, lat \in PropLatencies :
        /\ now + lat - local.start_time <= Horizon
        /\ Stuck => lat = 0
        /\ BootCompleted(Completed(0, out)) => ~Stuck
        /\ polls' = IF BootCompleted(Completed(0, out)) THEN polls
                    ELSE Unmet(now + lat)
        /\ now' = now + lat
        /\ local' = [local EXCEPT !.result = Completed(0, out)]
    /\ issued' = Issue(cycle, "getprop")
    /\ pc' = "boot_check"
    /\ UNCHANGED <<globals, loopLocals, ret, log, csv, files, bugreports>>

\* lines 74-76, 80
BootSeen ==
    /\ pc = "boot_check"
    /\ BootCompleted(local.result)
    /\ log' = Logged(Logged(log, "System boot completed.", 0),
                     "Waiting for OOBE (Tap to Begin) screen...", 0)
    /\ pc' = "oobe_poll"
    /\ UNCHANGED <<globals, now, loopLocals, local, ret, polls, csv, files, bugreports, issued>>

\* line 77 behind a timeout like that of lines 52-54: after 60 s the wait is
\* given up and the driver goes on
BootSleepTimesOut ==
    /\ pc = "boot_check"
    /\ ~BootCompleted(local.result)
    /\ IF now - local.start_time > OFFLINE_TIMEOUT
       THEN pc' = "oobe_poll" /\ UNCHANGED <<now, polls>>
       ELSE /\ now' = IF Stuck THEN now ELSE now + POLL
            /\ polls' = IF Stuck THEN polls ELSE polls + 1
            /\ pc' = "boot_poll"
    /\ UNCHANGED <<globals, loopLocals, local, ret, log, csv, files, bugreports, issued>>

\* line 77
BootSleep ==
    /\ pc = "boot_check"
    /\ ~BootCompleted(local.result)
    /\ now' = IF Stuck THEN now ELSE now + POLL
    /\ polls' = IF Stuck THEN polls ELSE polls + 1
    /\ pc' = "boot_poll"
    /\ UNCHANGED <<globals, loopLocals, local, ret, log, csv, files, bugreports, issued>>

\* line 82: dumpsys window windows
OobePoll ==
    /\ pc = "oobe_poll"
    /\ \E out \in DumpOutputs :
        /\ OobeShown(Completed(0, out)) => ~Stuck
        /\ polls' = IF OobeShown(Completed(0, out)) THEN polls ELSE Unmet(now)
        /\ local' = [local EXCEPT !.result = Completed(0, out)]
    /\ issued' = Issue(cycle, "dumpsys")
    /\ pc' = "oobe_check"
    /\ UNCHANGED <<globals, now, loopLocals, ret, log, csv, files, bugreports>>

\* lines 83-92 with the sleep of line 92 moved before line 88
OobeSeenTimedLate ==
    /\ pc = "oobe_check"
    /\ OobeShown(local.result)
    /\ local' = [local EXCEPT !.end_time = now + OOBE_SETTLE,
                              !.reboot_time = Elapsed(now + OOBE_SETTLE, local.start_time),
                              !.completed_time = Timestamp(now + OOBE_SETTLE)]
    /\ log' = Logged(Logged(log, "OOBE screen detected.", 0),
                     "Reboot + OOBE completed in",
                     Fmt2(Elapsed(now + OOBE_SETTLE, local.start_time)))
    /\ now' = now + OOBE_SETTLE
    /\ polls' = 0
    /\ pc' = "skip"
    /\ UNCHANGED <<globals, loopLocals, ret, csv, files, bugreports, issued>>

\* lines 83-85, 88-92: the setup screen is up; the reboot is timed, then 80 s pass
OobeSeen ==
    /\ pc = "oobe_check"
    /\ OobeShown(local.result)
    /\ local' = [local EXCEPT !.end_time = now,
                              !.reboot_time = Elapsed(now, local.start_time),
                              !.completed_time = Timestamp(now)]
    /\ log' = Logged(Logged(log, "OOBE screen detected.", 0),
                     "Reboot + OOBE completed in", Fmt2(Elapsed(now, local.start_time)))
    /\ now' = now + OOBE_SETTLE
    /\ polls' = 0
    /\ pc' = "skip"
    /\ UNCHANGED <<globals, loopLocals, ret, csv, files, bugreports, issued>>

\* line 86
OobeSleep ==
    /\ pc = "oobe_check"
    /\ ~OobeShown(local.result)
    /\ now' = IF Stuck THEN now ELSE now + POLL
    /\ polls' = IF Stuck THEN polls ELSE polls + 1
    /\ pc' = "oobe_poll"
    /\ UNCHANGED <<globals, loopLocals, local, ret, log, csv, files, bugreports, issued>>

\* lines 95-96: the TEST_MODE broadcast
SkipOobe ==
    /\ pc = "skip"
    /\ \E rc \in ReturnCodes :
        local' = [local EXCEPT !.result = Completed(rc, <<>>)]
    /\ log' = Logged(log, "SKIPPING OOBE, so starting TEST MODE", 0)
    /\ issued' = Issue(cycle, "skip")
    /\ pc' = "skip_check"
    /\ UNCHANGED <<globals, now, loopLocals, ret, polls, csv, files, bugreports>>

\* lines 97-99: the function returns False
SkipError ==
    /\ pc = "skip_check"
    /\ SkipFailed(local.result)
    /\ log' = Logged(log, "Failed to start TEST MODE", 0)
    /\ ret' = RetBool(FALSE)
    /\ local' = NoLocals
    /\ pc' = "wait_returned"
    /\ UNCHANGED <<globals, now, loopLocals, polls, csv, files, bugreports, issued>>

\* lines 101-103: 120 s pass, the function returns the pair
SkipDone ==
    /\ pc = "skip_check"
    /\ ~SkipFailed(local.result)
    /\ now' = now + TEST_MODE_SETTLE
    /\ ret' = RetPair(local.reboot_time, local.completed_time)
    /\ local' = NoLocals
    /\ pc' = "wait_returned"
    /\ UNCHANGED <<globals, loopLocals, polls, log, csv, files, bugreports, issued>>

(* --------------------- run_reboot_stress, continued ------------------- *)

\* lines 123, 125: the returned pair is unpacked
Unpack ==
    /\ pc = "wait_returned"
    /\ ret.kind = "tuple"
    /\ reboot_time' = ret.reboot_time
    /\ completed_time' = ret.completed_time
    /\ bugreport_flag' = "No"
    /\ ret' = RetNone
    /\ pc' = "classify"
    /\ UNCHANGED <<globals, now, cycle, cycle_start_time, local, polls, log, csv,
                   files, bugreports, issued>>

\* line 123: a bool cannot be unpacked; the TypeError ends the process
UnpackError ==
    /\ pc = "wait_returned"
    /\ ret.kind # "tuple"
    /\ pc' = "TypeError"
    /\ UNCHANGED <<globals, now, loopLocals, local, ret, polls, log, csv, files,
                   bugreports, issued>>

\* lines 126-129 without line 128: the flag is set, nothing is captured
AnomalyNotCaptured ==
    /\ pc = "classify"
    /\ ExceedsMax(reboot_time)
    /\ log' = Logged(log, "WARNING: Reboot time exceeded 5 minutes", Fmt2(reboot_time))
    /\ bugreport_flag' = "Yes"
    /\ pc' = "write_row"
    /\ UNCHANGED <<globals, now, cycle, cycle_start_time, reboot_time, completed_time,
                   local, ret, polls, csv, files, bugreports, issued>>

\* lines 126-127
Anomaly ==
    /\ pc = "classify"
    /\ ExceedsMax(reboot_time)
    /\ log' = Logged(log, "WARNING: Reboot time exceeded 5 minutes", Fmt2(reboot_time))
    /\ pc' = "capture"
    /\ UNCHANGED <<globals, now, loopLocals, local, ret, polls, csv, files,
                   bugreports, issued>>

\* line 126: the condition is false
NoAnomaly ==
    /\ pc = "classify"
    /\ ~ExceedsMax(reboot_time)
    /\ pc' = "write_row"
    /\ UNCHANGED <<globals, now, loopLocals, local, ret, polls, log, csv, files,
                   bugreports, issued>>

\* lines 128-129 without line 129
CaptureBugreportUnflagged ==
    /\ pc = "capture"
    /\ log' = Logged(Logged(log, "Capturing bugreport for iteration", cycle),
                     "Bugreport saved to", cycle)
    /\ bugreports' = Append(bugreports, <<cycle, Timestamp(now)>>)
    /\ issued' = Issue(cycle, "bugreport")
    /\ pc' = "write_row"
    /\ UNCHANGED <<globals, now, loopLocals, local, ret, polls, csv, files>>

\* lines 128-129, 107-111: capture_bugreport, then the flag
CaptureBugreport ==
    /\ pc = "capture"
    /\ log' = Logged(Logged(log, "Capturing bugreport for iteration", cycle),
                     "Bugreport saved to", cycle)
    /\ bugreports' = Append(bugreports, <<cycle, Timestamp(now)>>)
    /\ issued' = Issue(cycle, "bugreport")
    /\ bugreport_flag' = "Yes"
    /\ pc' = "write_row"
    /\ UNCHANGED <<globals, now, cycle, cycle_start_time, reboot_time, completed_time,
                   local, ret, polls, csv, files>>

\* line 132
WriteRow ==
    /\ pc = "write_row"
    /\ csv' = Append(csv, Row(SERIAL_NUMBER, cycle, reboot_time, completed_time, bugreport_flag))
    /\ pc' = "cycle_end"
    /\ UNCHANGED <<globals, now, loopLocals, local, ret, polls, log, files,
                   bugreports, issued>>

\* lines 134-138: the cycle's time in minutes is logged, then 10 s pass
CycleEnd ==
    /\ pc = "cycle_end"
    /\ log' = Logged(Logged(log, "Cycle's Total Execution time is",
                            (now - cycle_start_time + 300) \div 600),
                     "===== Cycle COMPLETE =====", cycle)
    /\ now' = now + CYCLE_PAUSE
    /\ pc' = "for"
    /\ UNCHANGED <<globals, loopLocals, local, ret, polls, csv, files, bugreports, issued>>

(* ------------------------------- Spec --------------------------------- *)

Next ==
    \/ MainUsage
    \/ MainBadCount
    \/ MainNoDevice
    \/ MainOpen
    \/ MainCompleted
    \/ CycleStart
    \/ LoopEnd
    \/ GainRoot
    \/ RootError
    \/ RootRefused
    \/ TriggerReset
    \/ ResetError
    \/ OfflineWaitStart
    \/ OfflinePoll
    \/ OfflineSeen
    \/ OfflineGiveUp
    \/ OfflineAgain
    \/ HardFailure
    \/ WaitStart
    \/ ReachPoll
    \/ ReachSeen
    \/ ReachAgain
    \/ BootPoll
    \/ BootSeen
    \/ BootSleep
    \/ OobePoll
    \/ OobeSeen
    \/ OobeSleep
    \/ SkipOobe
    \/ SkipError
    \/ SkipDone
    \/ Unpack
    \/ UnpackError
    \/ Anomaly
    \/ NoAnomaly
    \/ CaptureBugreport
    \/ WriteRow
    \/ CycleEnd

Spec == Init /\ [][Next]_vars

\* the interpreter runs the one thread of the program on: a step that can be
\* taken is taken
FairSpec == Spec /\ WF_vars(Next)

(* ----------------------- rows, failures, commands --------------------- *)

\* the result rows: the rows of the result file after the header
Rows == IF Len(csv) = 0 THEN <<>> ELSE Tail(csv)

RowCycle(r) == r[2]

RowDuration(r) == r[3]

RowFlag(r) == r[5]

\* the process has ended
Ended == pc \in {"exit0", "exit1", "TypeError", "ValueError"}

\* the cycles the log reports as failed (line 120)
FailedCycles ==
    {log[i][2] : i \in {j \in DOMAIN log : log[j][1] = "Factory reset command failed at cycle"}}

\* the log holds the message
InLog(info) == \E i \in DOMAIN log : log[i][1] = info

\* the cycle indices of the rows are 1, 2, .., in order
Contiguous == \A i \in DOMAIN Rows : RowCycle(Rows[i]) = i

\* the result file only grows, by one row at a time, and no row written changes
RowsOnlyAppended ==
    /\ Len(csv') \in {Len(csv), Len(csv) + 1}
    /\ \A i \in DOMAIN csv : csv'[i] = csv[i]

\* the cycles for which an adb command was issued
IssuedCycles == {e[1] : e \in issued}

(* ------------------------------- C1 ----------------------------------- *)

\* C1: a run of N >= 1 cycles that has ended without a hard failure, whatever
\* the other adb calls (the skip-setup command among them) returned, has
\* written exactly N rows, with cycle indices 1..N in order.
C1_NoHardFailureGivesNRows ==
    (Ended /\ files /\ REBOOT_TIMES >= 1 /\ FailedCycles = {})
        => (Len(Rows) = REBOOT_TIMES /\ Contiguous)

(* ------------------------------- C2 ----------------------------------- *)

\* the driver is about to signal a hard failure: root errored or was denied,
\* or the reset broadcast errored
HardFailureDue ==
    \/ /\ pc = "root_check"
       /\ \/ local.result.returncode # 0
          \/ Contains(local.result.stdout, DENIAL_PHRASE)
    \/ /\ pc = "reset_check"
       /\ local.result.returncode # 0

\* once cycle k is reported failed: k-1 rows, no bugreport of cycle k, no
\* command of a later cycle, and the loop has been left
AfterHardFailure ==
    \A k \in FailedCycles :
        /\ k = cycle
        /\ Len(Rows) = k - 1
        /\ Contiguous
        /\ \A i \in DOMAIN bugreports : bugreports[i][1] # k
        /\ \A c \in IssuedCycles : c <= k
        /\ pc \in {"completed", "exit0"}

\* a hard failure is signalled, reported for the current cycle, and writes no row
HardFailureStep ==
    /\ HardFailureDue =>
        /\ pc' = "reset_returned"
        /\ ret' = RetBool(FALSE)
        /\ csv' = csv /\ bugreports' = bugreports /\ issued' = issued
    /\ (pc = "reset_returned" /\ ret = RetBool(FALSE)) =>
        /\ FailedCycles' = FailedCycles \cup {cycle}
        /\ csv' = csv /\ bugreports' = bugreports /\ issued' = issued
    /\ RowsOnlyAppended

\* C2: a hard failure at cycle k (root errors or is denied, or the reset
\* command returns non-zero) ends the run with exactly k-1 rows: no row and no
\* bugreport for cycle k, the earlier rows unchanged, no command of a later cycle.
C2_HardFailureTruncates == [](AfterHardFailure) /\ [][HardFailureStep]_vars

\* the run ended by a hard failure in cycle 2, one row written
C2_Witness ==
    /\ pc = "exit0"
    /\ FailedCycles = {2}
    /\ Len(Rows) = 1
    /\ <<2, "root">> \in issued

(* ------------------------------- C3 ----------------------------------- *)

\* C3: in every state the rows written so far have the cycle indices 1..K in
\* order, for some K <= N: no gap, no duplicate.
C3_RowsContiguous == Contiguous /\ (files => Len(Rows) <= REBOOT_TIMES)

\* a run of 2 cycles cut short by a failed second cycle
C3_Witness ==
    /\ Ended
    /\ REBOOT_TIMES = 2
    /\ Len(Rows) = 1
    /\ FailedCycles = {2}
    /\ InLog("Failed to start factory reset")

(* ------------------------------- C4 ----------------------------------- *)

\* C4: an error of the skip-setup command is soft: the wait still returns the
\* duration and the timestamp, no exception ends the process, and once the
\* process has ended every cycle whose skip command was issued has its row.
C4_SkipFailureIsSoft ==
    /\ pc = "wait_returned" => ret.kind = "tuple"
    /\ pc # "TypeError"
    /\ Ended => \A c \in 1..cycle : <<c, "skip">> \in issued => c <= Len(Rows)

(* ------------------------------- C5 ----------------------------------- *)

\* C5: the flag of the row just written is "Yes" exactly when the measured
\* duration is over 900 s; 900 s itself gives "No".
C5_FlagIffOver900 ==
    pc = "cycle_end" =>
        /\ RowFlag(Rows[Len(Rows)]) \in {"Yes", "No"}
        /\ RowFlag(Rows[Len(Rows)]) = "Yes" <=> reboot_time > 900 * 1000
        /\ RowCycle(Rows[Len(Rows)]) = cycle
        /\ RowDuration(Rows[Len(Rows)]) = Fmt2(reboot_time)

\* a reboot of exactly 900.000 s, written as 900.00 and not flagged
C5_Witness ==
    /\ pc = "cycle_end"
    /\ reboot_time = 900 * 1000
    /\ RowDuration(Rows[Len(Rows)]) = 90000
    /\ RowFlag(Rows[Len(Rows)]) = "No"

(* ------------------------------- C6 ----------------------------------- *)

\* the cycles a bugreport file is keyed by
Captured == {bugreports[i][1] : i \in DOMAIN bugreports}

\* the cycles whose row is flagged "Yes"
FlaggedYes == {RowCycle(Rows[i]) : i \in {j \in DOMAIN Rows : RowFlag(Rows[j]) = "Yes"}}

\* C6: capture_bugreport runs exactly once, keyed by c, for each cycle c that
\* is flagged, and for no other cycle (none that is not flagged, none that
\* hard-failed): the cycles with a bugreport are the cycles of the rows
\* flagged "Yes", plus the current cycle between its capture and its row.
C6_CaptureIffFlagged ==
    /\ Cardinality(Captured) = Len(bugreports)
    /\ Captured = {e[1] : e \in {x \in issued : x[2] = "bugreport"}}
    /\ IF pc = "write_row" /\ bugreport_flag = "Yes"
       THEN Captured = FlaggedYes \cup {cycle} /\ reboot_time > 900 * 1000
       ELSE Captured = FlaggedYes
    /\ Captured \cap FailedCycles = {}

\* a run of 2 cycles has ended: the first slow and captured, the second not
C6_Witness ==
    /\ pc = "exit0"
    /\ Len(Rows) = 2
    /\ RowFlag(Rows[1]) = "Yes"
    /\ RowFlag(Rows[2]) = "No"
    /\ Captured = {1}

(* ------------------------------- C7 ----------------------------------- *)

\* the answer to adb root holds the denial phrase
DenialReceived == pc = "root_check" /\ Contains(local.result.stdout, DENIAL_PHRASE)

\* when adb root has answered, the reset of this cycle is not yet sent, no
\* later cycle has begun and every earlier cycle has its row
BeforeReset ==
    pc = "root_check" =>
        /\ <<cycle, "reset">> \notin issued
        /\ \A c \in IssuedCycles : c <= cycle
        /\ Len(Rows) = cycle - 1

\* a denial makes the driver return False; from there the loop is left and
\* nothing more is sent or written
DenialStep ==
    /\ DenialReceived =>
        /\ pc' = "reset_returned"
        /\ ret' = RetBool(FALSE)
        /\ issued' = issued /\ csv' = csv
    /\ (pc = "reset_returned" /\ ret = RetBool(FALSE)) =>
        /\ pc' = "completed"
        /\ issued' = issued /\ csv' = csv
    /\ pc \in {"completed", "exit0"} =>
        /\ pc' \in {"completed", "exit0"}
        /\ issued' = issued /\ csv' = csv

\* C7: a response to adb root that holds the denial phrase, whatever its
\* status code, is a hard failure: the run is left without the reset command
\* being sent in that cycle or later; a denial in cycle 2 leaves 1 row.
C7_DenialAborts == [](BeforeReset) /\ [][DenialStep]_vars

\* the run has ended on a denial with status 0 in cycle 2, with 1 row
C7_Witness ==
    /\ pc = "exit0"
    /\ Len(log) > 2
    /\ log[Len(log) - 2][1] = "Device does not allow ADB root. Cannot proceed with factory reset."
    /\ cycle = 2
    /\ Len(Rows) = 1
    /\ <<2, "reset">> \notin issued

(* ------------------------------- C8 ----------------------------------- *)

WaitPcs == {"reach_sleep", "reach_check", "boot_poll", "boot_check", "oobe_poll", "oobe_check"}

\* the duration handed to the loop is not negative, and the cycle took at
\* least the offline wait (2 s or more) and the 80 s and 120 s on top of it
DurationBounds ==
    /\ pc \in {"skip", "skip_check"} => local.reboot_time >= 0
    /\ pc = "classify" =>
        /\ reboot_time >= 0
        /\ now - cycle_start_time >= reboot_time + 2000 + 80000 + 120000

\* the measurement starts when the wait for the device to come back starts,
\* stops when the setup screen is found, and reaches the loop unchanged
DurationStep ==
    /\ (pc = "reset_returned" /\ pc' = "reach_sleep") => local'.start_time = now
    /\ (pc \in WaitPcs /\ pc' \in WaitPcs) => local'.start_time = local.start_time
    /\ (pc = "oobe_check" /\ pc' = "skip") => local'.reboot_time = now - local.start_time
    /\ (pc = "skip" /\ pc' = "skip_check") => local'.reboot_time = local.reboot_time
    /\ (pc = "skip_check" /\ pc' = "wait_returned" /\ ret'.kind = "tuple") =>
        ret'.reboot_time = local.reboot_time
    /\ (pc = "wait_returned" /\ pc' = "classify") => reboot_time' = ret.reboot_time

\* C8: the reported duration is >= 0 and is the time from the start of the
\* wait for the device to come back to the detection of the setup screen: the
\* offline wait before it and the 80 s, the skip command and the 120 s after it
\* are not in it.
C8_DurationIsReachToOobe == [](DurationBounds) /\ [][DurationStep]_vars

\* a cycle whose offline wait ran into its timeout (62 s) and whose reboot
\* took one poll: 5 s reported of the 267 s the cycle has taken
C8_Witness ==
    /\ pc = "classify"
    /\ reboot_time = 5000
    /\ now - cycle_start_time = 62000 + 5000 + 80000 + 120000

(* ------------------------------- C9 ----------------------------------- *)

\* the listing just read has no line for the target, or shows it offline
TargetGone == Unlisted(local.devices) \/ Listed(local.devices, "offline")

\* the offline wait has lasted 2 s per poll and at most 62 s, and can go on
OfflineWaitBounded ==
    /\ pc \in {"offline_sleep", "offline_check"} =>
        /\ now - local.start_wait = 2000 * polls
        /\ now - local.start_wait <= 62000
    /\ pc = "offline_sleep" =>
        /\ now - local.start_wait <= 60000
        /\ ENABLED OfflinePoll
    /\ pc = "offline_check" => ENABLED (OfflineSeen \/ OfflineGiveUp \/ OfflineAgain)

\* the wait ends at a poll that finds the target gone, else at a poll later
\* than 60 s, and at no other; either way True is returned and the wait for
\* the device to come back begins
OfflineWaitStep ==
    /\ pc = "offline_sleep" => (pc' = "offline_check" /\ now' = now + 2000)
    /\ (pc = "offline_check" /\ (TargetGone \/ now - local.start_wait > 60000)) =>
        (pc' = "reset_returned" /\ ret' = RetBool(TRUE))
    /\ (pc = "offline_check" /\ ~TargetGone /\ now - local.start_wait <= 60000) =>
        (pc' = "offline_sleep" /\ ret' = ret)
    /\ (pc = "reset_returned" /\ ret = RetBool(TRUE)) => pc' = "reach_sleep"

C10_ReachEndsOnlyWhenReady ==
    pc \in {"boot_poll", "boot_check"} => Listed(local.devices, "device")

(* ------------------------------- C11 ---------------------------------- *)

\* the launch is to be refused: the argument count is wrong, or the listing
\* read at launch has no line for the serial given
LaunchRefused == Len(argv) # 3 \/ (<<0, "devices">> \in issued /\ ~attached)

\* C11: with a wrong argument count, or a serial that is not among the devices
\* listed at launch, the process ends in the error exit before any cycle: no
\* root or reset command is issued and neither the log file nor the result
\* file is created.
C11_RefusedLaunchLeavesNoTrace ==
    LaunchRefused =>
        /\ pc \in {"main", "exit1"}
        /\ ~files /\ log = <<>> /\ csv = <<>>
        /\ cycle = 0
        /\ \A e \in issued : e[2] \notin {"root", "reset"}

(* ------------------------------- C12 ---------------------------------- *)

ReachPcs == {"reach_sleep", "reach_check"}

BootPcs == {"boot_poll", "boot_check"}

OobePcs == {"oobe_poll", "oobe_check"}

\* the wait the statement p belongs to, if any
Phase(p) ==
    CASE p \in ReachPcs -> "reach"
      [] p \in BootPcs -> "boot"
      [] p \in OobePcs -> "oobe"
      [] OTHER -> "none"

\* the poll just made did not find what its wait polls for: the serial in
\* the listing, the answer 1, a setup marker in the dump
PollUnmet ==
    \/ pc = "reach_check" /\ ~Contains(local.devices, SERIAL_NUMBER)
    \/ pc = "boot_check" /\ Strip(local.result.stdout) # <<"1">>
    \/ pc = "oobe_check" /\ ~Contains(local.result.stdout, TAP_TO_BEGIN)
                         /\ ~Contains(local.result.stdout, SETUP_WIZARD)

\* nothing of the run moves: no row, no failure report, no new cycle, no end
RunStands ==
    /\ csv' = csv
    /\ cycle' = cycle
    /\ FailedCycles' = FailedCycles
    /\ ret' = ret
    /\ ~Ended'

\* a wait is never at a halt, and only a wait can be stuck
WaitGoesOn ==
    /\ pc \in WaitPcs => ENABLED Next
    /\ Stuck => pc \in WaitPcs

\* a poll that finds its condition unmet is followed by the next poll of the
\* same wait however long the wait has lasted; a wait is left only on a poll
\* that finds the condition met; a stuck wait stays stuck
WaitStep ==
    /\ PollUnmet => (Phase(pc') = Phase(pc) /\ pc' # pc /\ RunStands)
    /\ (pc \in WaitPcs /\ Phase(pc') # Phase(pc)) =>
        (pc \in {"reach_check", "boot_check", "oobe_check"} /\ ~PollUnmet)
    /\ pc \in WaitPcs \ {"oobe_check"} => RunStands
    /\ Stuck => (Stuck' /\ Phase(pc') = Phase(pc) /\ RunStands)

EndsInOneOfTwoWays ==
    (Ended /\ files) =>
        /\ pc = "exit0"
        /\ Contiguous
        /\ \/ FailedCycles = {} /\ Len(Rows) = REBOOT_TIMES
           \/ FailedCycles = {cycle} /\ Len(Rows) = cycle - 1

\* C13: a process that keeps running ends its run unless the device stays
\* short of a state that a wait polls for, and a run that was started ends
\* in one of two ways only: N cycles done with N rows, or stopped by a hard
\* failure with the rows of the cycles before it.
C13_RunEndsInOneOfTwoWays == <>(Ended \/ Stuck) /\ [](EndsInOneOfTwoWays)

(* ------------------------------- C14 ---------------------------------- *)

Sent(c, cmd) == <<c, cmd>> \in issued

\* the command whose answer the driver holds at statement p
CommandAt(p) ==
    CASE p = "root_check" -> "root"
      [] p = "reset_check" -> "reset"
      [] p \in {"offline_check", "reach_check"} -> "devices"
      [] p = "boot_check" -> "getprop"
      [] p = "oobe_check" -> "dumpsys"
      [] p = "skip_check" -> "skip"
      [] p = "write_row" -> "bugreport"
      [] OTHER -> "none"

\* root was granted: status 0 and no denial in the answer
RootGranted ==
    /\ pc = "root_check"
    /\ local.result.returncode = 0
    /\ ~Contains(Lower(local.result.stdout), DENIAL_PHRASE)

\* within a cycle a command of a later phase has those of the earlier phases
\* before it
SentInOrder ==
    \A c \in 1..cycle :
        /\ Sent(c, "reset") => Sent(c, "root")
        /\ Sent(c, "devices") => Sent(c, "reset")
        /\ Sent(c, "getprop") => Sent(c, "devices")
        /\ Sent(c, "dumpsys") => Sent(c, "getprop")
        /\ Sent(c, "skip") => Sent(c, "dumpsys")

\* each phase is entered from the phase before it, on that phase's success,
\* or goes round in itself; a command is sent only on entering the statement
\* that reads its answer, for the current cycle
PhaseStep ==
    /\ pc' = "root_check" => (pc = "root" /\ ~Sent(cycle, "root"))
    /\ pc' = "reset_check" => RootGranted
    /\ pc' = "offline_sleep" =>
        \/ pc = "reset_check" /\ local.result.returncode = 0
        \/ pc = "offline_check"
    /\ pc' = "offline_check" => pc = "offline_sleep"
    /\ pc' = "reach_sleep" =>
        \/ pc = "reset_returned" /\ ret = RetBool(TRUE)
        \/ pc = "reach_check"
    /\ pc' = "reach_check" => pc = "reach_sleep"
    /\ pc' = "boot_poll" =>
        \/ pc = "reach_check" /\ Contains(local.devices, SERIAL_NUMBER)
        \/ pc = "boot_check"
    /\ pc' = "boot_check" => pc = "boot_poll"
    /\ pc' = "oobe_poll" =>
        \/ pc = "boot_check" /\ Strip(local.result.stdout) = <<"1">>
        \/ pc = "oobe_check"
    /\ pc' = "oobe_check" => pc = "oobe_poll"
    /\ pc' = "skip" =>
        /\ pc = "oobe_check"
        /\ \/ Contains(local.result.stdout, TAP_TO_BEGIN)
           \/ Contains(local.result.stdout, SETUP_WIZARD)
    /\ pc' = "skip_check" => pc = "skip"
    /\ (pc' = "reset_returned" /\ ret' = RetBool(TRUE)) => pc = "offline_check"
    /\ issued' # issued =>
        \/ pc = "main"
        \/ issued' = issued \cup {<<cycle, CommandAt(pc')>>} /\ cycle' = cycle
    /\ (pc' # pc /\ CommandAt(pc') \notin {"none", "bugreport"}) =>
        <<cycle, CommandAt(pc')>> \in issued'

\* C14: within a cycle the phases come in one order and none is skipped: the
\* reset is sent only after root was granted in that cycle, the offline
\* polling starts only after the reset succeeded, boot completion is queried
\* only after the device was detected again, the window dump is read only
\* after boot completion was read, and the skip-setup command is sent only
\* after the setup screen was detected.
C14_PhasesInOrder == [](SentInOrder) /\ [][PhaseStep]_vars

\* the second cycle has sent all its commands up to the skip-setup command
C14_Witness ==
    /\ pc = "skip_check"
    /\ cycle = 2
    /\ \A cmd \in {"root", "reset", "devices", "getprop", "dumpsys", "skip"} : Sent(2, cmd)
    /\ Len(Rows) = 1

(* ------------------------------- C15 ---------------------------------- *)

\* the number of rows flagged "Yes"
YesRows == Cardinality({j \in DOMAIN Rows : RowFlag(Rows[j]) = "Yes"})

\* by how many the captures made exceed the rows flagged "Yes"
CaptureLead == Len(bugreports) - YesRows

\* the captures are never behind the flagged rows and at most one ahead, and
\* are ahead only between the capture of the current cycle and its row
CapturesLeadRows ==
    /\ CaptureLead \in {0, 1}
    /\ CaptureLead = 1 =>
        /\ pc = "write_row"
        /\ bugreports[Len(bugreports)][1] = cycle
        /\ Len(Rows) = cycle - 1
    /\ (pc = "write_row" /\ reboot_time > 900 * 1000) => CaptureLead = 1

\* a capture is of a cycle over 900 s whose row is not yet written; a row
\* flagged "Yes" is appended with its cycle's capture made; a cycle asks for
\* root with the row, and the capture if any, of the cycle before in place
CaptureStep ==
    /\ Len(bugreports') # Len(bugreports) =>
        /\ bugreports' = Append(bugreports, bugreports'[Len(bugreports')])
        /\ bugreports'[Len(bugreports')][1] = cycle
        /\ reboot_time > 900 * 1000
        /\ Len(Rows) = cycle - 1 /\ csv' = csv
    /\ (Len(csv') = Len(csv) + 1 /\ csv # <<>> /\ csv'[Len(csv')][5] = "Yes") =>
        /\ bugreports # <<>>
        /\ bugreports[Len(bugreports)][1] = cycle
        /\ bugreports' = bugreports
    /\ pc' = "root_check" =>
        /\ CaptureLead = 0
        /\ Len(Rows) = cycle - 1
        /\ \A i \in DOMAIN bugreports : bugreports[i][1] < cycle

\* C15: the bugreport of a cycle over 900 s is captured before the cycle's
\* row is appended, and both before the next cycle asks for root: in every
\* state the captures made are as many as the rows flagged "Yes" or one more.
C15_CaptureBeforeRow == [](CapturesLeadRows) /\ [][CaptureStep]_vars

\* the second cycle's capture is made and its row not yet written, after a
\* first cycle that was captured and flagged too
C15_Witness ==
    /\ pc = "write_row"
    /\ cycle = 2
    /\ Len(bugreports) = 2
    /\ YesRows = 1
    /\ bugreport_flag = "Yes"

(* ------------------------------- C16 ---------------------------------- *)

\* the process has ended with a non-zero exit status: sys.exit(1), or an
\* exception that nothing catches
ErrorExit == pc \in {"exit1", "TypeError", "ValueError"}

\* main has run to its end: the last log line is that of line 165
NormalCompletion == pc = "exit0" /\ log # <<>> /\ log[Len(log)][1] = "Test completed."

\* C16: a hard failure of a cycle does not end the process in error: main
\* still logs "Test completed." and ends as it does after N cycles; the
\* process ends in error only on a startup error, before any file is created
\* and any cycle started.
C16_OnlyStartupErrorsExitInError ==
    /\ (Ended /\ FailedCycles # {}) => NormalCompletion
    /\ pc = "exit0" => NormalCompletion
    /\ ErrorExit => (~files /\ cycle = 0 /\ log = <<>>)

====
